---- MODULE Spec2Model ----
(***************************************************************************)
(* Model of commend.py: an item-based movie recommender.                   *)
(*                                                                         *)
(* At import time the module reads the ratings and the movie list, joins   *)
(* them on movie_id, pivots the join into a movie x user matrix (absent    *)
(* cells 0) and fits a brute-force cosine NearestNeighbors model on it.    *)
(* Afterwards the Flask handler /recommend serves requests through         *)
(* get_recommendations (similarity path) or get_top_rated_movies           *)
(* (popularity path).                                                      *)
(*                                                                         *)
(* Numbers.  Ratings are small integers.  A cosine similarity is kept as   *)
(* the integer SCALE * cos; every row of Palette has an integer Euclidean  *)
(* norm dividing 30, so SCALE * cos is an exact integer and sums and       *)
(* comparisons of scores are exact.  Means and the median are compared by  *)
(* cross-multiplication, never divided.                                    *)
(*                                                                         *)
(* Unspecified order.  NearestNeighbors.kneighbors orders equidistant rows *)
(* by an argpartition/argsort whose tie order is not defined, and          *)
(* DataFrame.sort_values defaults to an unstable quicksort.  The order a   *)
(* given build gives to ties is fixed for the life of the process and is   *)
(* chosen in Init (knnTie, sortTie).  The iteration order of set(movie_ids)*)
(* is chosen per request.                                                  *)
(***************************************************************************)
EXTENDS Integers, Sequences, FiniteSets

VARIABLES
    df_ratings,       \* rows of ratings_100k.csv: [userId, movie_id, rating]
    df_movies,        \* rows of movies_100k.csv: [movie_id, movie_title]
    df_merged,        \* pd.merge(df_ratings, df_movies, on='movie_id')
    df_piv,           \* the pivot [index, columns, values] and the fitted model's
                      \* pairwise row distances
    knnTie,           \* tie order of kneighbors in this build
    sortTie,          \* tie order of sort_values in this build
    pc,               \* "import" | "crashed" | "idle" | "responded"
    route,            \* "none" | "similar" | "popular": function that served
    movie_ids,        \* the seed list handed to get_recommendations
    recommendations,  \* the accumulation dict, as items in insertion order
    final_recs,       \* selected movie ids, in output order
    response,         \* the titles returned
    raised,           \* "none" or the exception that left the function
    form              \* request.form of the request being served, << >> if none

vars == << df_ratings, df_movies, df_merged, df_piv, knnTie, sortTie, pc,
           route, movie_ids, recommendations, final_recs, response, raised, form >>

dataVars == << df_ratings, df_movies, knnTie, sortTie >>
builtVars == << df_merged, df_piv >>

----------------------------------------------------------------------------
(* Program constants *)

\* n_neighbors of the NearestNeighbors model and of every kneighbors call
K == 11

\* length cap of both result lists (len(final_recs) >= 5, head(5))
TopN == 5

\* the form fields read by /recommend
FormKeys == << "movie1", "movie2", "movie3" >>

\* valid_selection_count >= 3
MinSelection == 3

----------------------------------------------------------------------------
(* Bounds of the model *)

\* largest number of rated movies (rows of the matrix) in a dataset
MaxRows == 14

\* datasets differ by the offset at which the rows start in Palette
MaxShift == 1

\* longest seed list of a direct call of get_recommendations
MaxSeeds == 2

----------------------------------------------------------------------------
(* Generic helpers *)

RECURSIVE SumSeq(_)
SumSeq(s) == IF s = << >> THEN 0 ELSE Head(s) + SumSeq(Tail(s))

Range(s) == { s[i] : i \in DOMAIN s }

\* Sorting.  An element carries its sort key: the fraction num/den (den > 0),
\* then tie; a sequence is sorted ascending by that key.
Precedes(a, b) ==
    \/ a.num * b.den < b.num * a.den
    \/ a.num * b.den = b.num * a.den /\ a.tie < b.tie

RECURSIVE Insert(_, _)
Insert(sorted, e) ==
    IF sorted = << >> THEN << e >>
    ELSE IF Precedes(e, Head(sorted)) THEN << e >> \o sorted
    ELSE << Head(sorted) >> \o Insert(Tail(sorted), e)

RECURSIVE SortSeq(_)
SortSeq(s) == IF s = << >> THEN << >> ELSE Insert(SortSeq(Tail(s)), Head(s))

\* the integers of S in ascending order
RECURSIVE Ascending(_)
Ascending(S) ==
    IF S = {} THEN << >>
    ELSE LET m == CHOOSE x \in S : \A y \in S : x <= y
         IN  << m >> \o Ascending(S \ { m })

\* All orderings of a finite set as sequences without repetition.
Orderings(S) ==
    { s \in [1..Cardinality(S) -> S] : \A x \in S : \E i \in DOMAIN s : s[i] = x }

----------------------------------------------------------------------------
(* Datasets *)

UserIds == << 10, 20, 30 >>

\* a rater whose only ratings are of movies missing from the movie list
OrphanUser == UserIds[3] + 10

\* Rating rows (one value per user of UserIds, 0 = no rating); norms 5,5,3,6,5,5,3,5,3.
Palette == <<
    << 3, 4, 0 >>, << 4, 3, 0 >>, << 1, 2, 2 >>,
    << 2, 4, 4 >>, << 5, 0, 0 >>, << 0, 3, 4 >>,
    << 2, 2, 1 >>, << 0, 0, 5 >>, << 2, 1, 2 >> >>

Strides == { 1, 2 }

\* number of rated movies of a dataset
RowCounts == { 0, 3, K - 1, K, MaxRows }

\* movie_id of the i-th rated movie: every id divisible by 4 has no rating
NthRatedId(i) == i + ((i - 1) \div 3)

\* the movie list holds ids 1..CatalogSize
CatalogSize == NthRatedId(MaxRows) + 1

\* a movie_id that ratings mention and the movie list does not hold
OrphanId == CatalogSize + 30

TitleOf(m) == << "title", m >>

PaletteRow(i, shift, stride) ==
    Palette[((stride * (i - 1) + shift) % Len(Palette)) + 1]

RatingsOf(n, shift, stride) ==
    { [ userId |-> UserIds[u], movie_id |-> NthRatedId(i),
        rating |-> PaletteRow(i, shift, stride)[u] ] :
        << i, u >> \in { p \in (1..n) \X DOMAIN UserIds :
                            PaletteRow(p[1], shift, stride)[p[2]] # 0 } }
    \cup { [ userId |-> OrphanUser, movie_id |-> OrphanId, rating |-> 4 ],
           [ userId |-> UserIds[1], movie_id |-> OrphanId, rating |-> 2 ] }

MovieList == [ m \in 1..CatalogSize |-> [ movie_id |-> m, movie_title |-> TitleOf(m) ] ]

TieOrders == { "asc", "desc" }

NoCall == [ route |-> "none", movie_ids |-> << >>, recommendations |-> << >>,
            final_recs |-> << >>, response |-> << >>, raised |-> "none" ]

Init ==
    /\ \E n \in RowCounts, shift \in 0..MaxShift, stride \in Strides :
          df_ratings = RatingsOf(n, shift, stride)
    /\ df_movies = MovieList
    /\ df_merged = {}
    /\ df_piv = [ index |-> << >>, columns |-> << >>, values |-> << >>,
                  distance |-> << >> ]
    /\ knnTie \in TieOrders
    /\ sortTie \in TieOrders
    /\ pc = "import"
    /\ route = "none"
    /\ movie_ids = << >>
    /\ recommendations = << >>
    /\ final_recs = << >>
    /\ response = << >>
    /\ raised = "none"
    /\ form = << >>

----------------------------------------------------------------------------
(* Import-time build, lines 46-57 *)

\* pd.merge(df_ratings, df_movies, on='movie_id'): inner join
Merge(ratings, movies) ==
    { [ userId |-> r.userId, movie_id |-> r.movie_id, rating |-> r.rating,
        movie_title |-> movies[j].movie_title ] :
        << r, j >> \in { p \in ratings \X DOMAIN movies :
                            movies[p[2]].movie_id = p[1].movie_id } }

\* df_merged.pivot(index="movie_id", columns="userId", values="rating").fillna(0)
Pivot(merged) ==
    LET ids   == Ascending({ r.movie_id : r \in merged })
        users == Ascending({ r.userId : r \in merged })
        Cell(m, u) ==
            LET hit == { r \in merged : r.movie_id = m /\ r.userId = u }
            IN  IF hit = {} THEN 0 ELSE (CHOOSE r \in hit : TRUE).rating
    IN  [ index   |-> ids,
          columns |-> users,
          values  |-> [ i \in DOMAIN ids |->
                          [ j \in DOMAIN users |-> Cell(ids[i], users[j]) ] ] ]

(* Cosine distances, sklearn.metrics.pairwise.cosine_distances *)

\* lcm of the products of two Palette norms: SCALE * cos is an integer
SCALE == 30 * 30

Dot(a, b) == SumSeq([ j \in DOMAIN a |-> a[j] * b[j] ])

ISqrt(v) == CHOOSE r \in 0..v : r * r <= v /\ v < (r + 1) * (r + 1)

\* cosine_similarity: rows are normalised (a zero row stays zero), then dotted
Sim(a, b) ==
    LET na == ISqrt(Dot(a, a))
        nb == ISqrt(Dot(b, b))
    IN  IF na = 0 \/ nb = 0 THEN 0 ELSE (SCALE * Dot(a, b)) \div (na * nb)

\* distance = 1 - similarity, clipped to [0, 2]
CosineDistance(a, b) ==
    LET d == SCALE - Sim(a, b)
    IN  IF d < 0 THEN 0 ELSE IF d > 2 * SCALE THEN 2 * SCALE ELSE d

\* FitRaises for a fit that accepts an empty matrix
FitNeverRaises(piv) == FALSE

\* rec.fit(df_sp): check_array refuses a matrix of 0 samples with ValueError
FitRaises(piv) == Len(piv.index) = 0

\* The pairwise distances of the rows of the fitted matrix.  The brute-force
\* model computes them at query time from the stored rows; they are a function
\* of df_piv.values alone and are tabulated when the pivot is built.
DistanceTable(values) ==
    [ i \in DOMAIN values |-> [ j \in DOMAIN values |->
        CosineDistance(values[i], values[j]) ] ]

Startup ==
    /\ pc = "import"
    /\ df_merged' = Merge(df_ratings, df_movies)
    /\ LET piv == Pivot(df_merged')
       IN  df_piv' = [ index |-> piv.index, columns |-> piv.columns,
                       values |-> piv.values,
                       distance |-> DistanceTable(piv.values) ]
    /\ IF FitRaises(df_piv')
         THEN /\ pc' = "crashed"
              /\ raised' = "ValueError"
         ELSE /\ pc' = "idle"
              /\ raised' = "none"
    /\ UNCHANGED << dataVars, route, movie_ids, recommendations, final_recs, response,
                    form >>

----------------------------------------------------------------------------
(* get_recommendations, lines 62-100 *)

TieKey(tie, x) == IF tie = "asc" THEN x ELSE 0 - x

\* df_piv.index.get_loc(movie_id): the row position, KeyError when absent
HasLoc(movie_id) == \E i \in DOMAIN df_piv.index : df_piv.index[i] = movie_id
GetLoc(movie_id) == CHOOSE i \in DOMAIN df_piv.index : df_piv.index[i] = movie_id

\* kneighbors raises ValueError when n_neighbors > n_samples_fit
KNeighborsRaises == K > Len(df_piv.index)

\* rec_model.kneighbors(df_sp[movie_idx], n_neighbors=11): the K rows nearest
\* to the query row by ascending distance, equidistant rows in the build's order
KNeighbors(movie_idx) ==
    LET d == df_piv.distance[movie_idx]
        rows == [ j \in DOMAIN df_piv.index |->
                    [ indice |-> j, distance |-> d[j],
                      num |-> d[j], den |-> 1, tie |-> TieKey(knnTie, j) ] ]
    IN  SubSeq(SortSeq(rows), 1, K)

\* recommendations[rec_id] = recommendations.get(rec_id, 0) + rec_score
DictAdd(items, rec_id, rec_score) ==
    LET at == { p \in DOMAIN items : items[p].id = rec_id }
    IN  IF at # {}
          THEN [ items EXCEPT ![CHOOSE p \in at : TRUE].score = @ + rec_score ]
          ELSE Append(items, [ id |-> rec_id, score |-> rec_score ])

\* for i in range(1, len(similar_movie_ids)): positions 2.. of the 1-based list
RECURSIVE AddNeighbours(_, _, _)
AddNeighbours(items, neigh, i) ==
    IF i > Len(neigh) THEN items
    ELSE AddNeighbours(
            DictAdd(items, df_piv.index[neigh[i].indice], SCALE - neigh[i].distance),
            neigh, i + 1)

\* first position of the neighbour list that the loop reads
FirstRead == 2

\* AccumulateSeeds without the except clause: the KeyError of get_loc escapes
RECURSIVE AccumulateSeedsNoExcept(_, _, _)
AccumulateSeedsNoExcept(items, ids, s) ==
    IF s > Len(ids) THEN [ items |-> items, raised |-> "none" ]
    ELSE IF ~HasLoc(ids[s]) THEN [ items |-> items, raised |-> "KeyError" ]
    ELSE IF KNeighborsRaises THEN [ items |-> items, raised |-> "ValueError" ]
    ELSE AccumulateSeedsNoExcept(
            AddNeighbours(items, KNeighbors(GetLoc(ids[s])), FirstRead), ids, s + 1)

\* for movie_id in movie_ids: try ... except KeyError: continue
RECURSIVE AccumulateSeeds(_, _, _)
AccumulateSeeds(items, ids, s) ==
    IF s > Len(ids) THEN [ items |-> items, raised |-> "none" ]
    ELSE IF ~HasLoc(ids[s]) THEN AccumulateSeeds(items, ids, s + 1)
    ELSE IF KNeighborsRaises THEN [ items |-> items, raised |-> "ValueError" ]
    ELSE AccumulateSeeds(
            AddNeighbours(items, KNeighbors(GetLoc(ids[s])), FirstRead), ids, s + 1)

\* sorted(recommendations.items(), key=score, reverse=True): stable, so items of
\* equal score keep their insertion order
SortedRecs(items) ==
    SortSeq([ p \in DOMAIN items |->
                [ id |-> items[p].id, score |-> items[p].score,
                  num |-> 0 - items[p].score, den |-> 1, tie |-> p ] ])

\* SelectFinal without the test "rec_id not in movie_ids"
RECURSIVE SelectFinalKeepsSeeds(_, _, _, _)
SelectFinalKeepsSeeds(sorted, ids, i, acc) ==
    IF i > Len(sorted) THEN acc
    ELSE LET acc2 == Append(acc, sorted[i].id)
         IN  IF Len(acc2) >= TopN THEN acc2
             ELSE SelectFinalKeepsSeeds(sorted, ids, i + 1, acc2)

\* SelectFinal whose stop test is len(final_recs) > 5
RECURSIVE SelectFinalLateBreak(_, _, _, _)
SelectFinalLateBreak(sorted, ids, i, acc) ==
    IF i > Len(sorted) THEN acc
    ELSE LET acc2 == IF sorted[i].id \notin Range(ids)
                       THEN Append(acc, sorted[i].id) ELSE acc
         IN  IF Len(acc2) > TopN THEN acc2
             ELSE SelectFinalLateBreak(sorted, ids, i + 1, acc2)

\* the selection loop: append unless a seed, stop once TopN are chosen
RECURSIVE SelectFinal(_, _, _, _)
SelectFinal(sorted, ids, i, acc) ==
    IF i > Len(sorted) THEN acc
    ELSE LET acc2 == IF sorted[i].id \notin Range(ids)
                       THEN Append(acc, sorted[i].id) ELSE acc
         IN  IF Len(acc2) >= TopN THEN acc2
             ELSE SelectFinal(sorted, ids, i + 1, acc2)

\* df_movies[df_movies['movie_id'] == movie_id]['movie_title'], .iloc[0] if any
RECURSIVE Titles(_, _)
Titles(ids, i) ==
    IF i > Len(ids) THEN << >>
    ELSE LET rows == { j \in DOMAIN df_movies : df_movies[j].movie_id = ids[i] }
         IN  IF rows = {} THEN Titles(ids, i + 1)
             ELSE << df_movies[CHOOSE j \in rows : \A k \in rows : j <= k].movie_title >>
                    \o Titles(ids, i + 1)

\* the locals of get_recommendations(ids) when it returns or raises
GetRecommendations(ids) ==
    LET acc == AccumulateSeeds(<< >>, ids, 1)
        fin == SelectFinal(SortedRecs(acc.items), ids, 1, << >>)
    IN  IF acc.raised # "none"
          THEN [ route |-> "similar", movie_ids |-> ids, recommendations |-> acc.items,
                 final_recs |-> << >>, response |-> << >>, raised |-> acc.raised ]
          ELSE [ route |-> "similar", movie_ids |-> ids, recommendations |-> acc.items,
                 final_recs |-> fin, response |-> Titles(fin, 1), raised |-> "none" ]

----------------------------------------------------------------------------
(* get_top_rated_movies, lines 102-118 *)

\* groupby('movie_id')['rating']: per movie the count and the sum behind .mean()
RatingCount(m) == Cardinality({ r \in df_merged : r.movie_id = m })
RatingSum(m) ==
    LET rs == Ascending({ r.userId : r \in { x \in df_merged : x.movie_id = m } })
    IN  SumSeq([ i \in DOMAIN rs |->
            (CHOOSE r \in df_merged : r.movie_id = m /\ r.userId = rs[i]).rating ])

\* one row per movie_id of df_merged, ascending (the groupby order)
GroupStats ==
    LET ids == Ascending({ r.movie_id : r \in df_merged })
    IN  SubSeq([ i \in DOMAIN ids |->
                   [ movie_id |-> ids[i], count |-> RatingCount(ids[i]),
                     sum |-> RatingSum(ids[i]) ] ], 1, Len(ids))

\* twice df_count_rating['rating'].median(): the middle count, or the sum of
\* the two middle counts
TwiceMedian(stats) ==
    LET cs == SortSeq([ i \in DOMAIN stats |->
                  [ count |-> stats[i].count,
                    num |-> stats[i].count, den |-> 1, tie |-> i ] ])
        n  == Len(cs)
    IN  IF n % 2 = 1 THEN 2 * cs[(n + 1) \div 2].count
        ELSE cs[n \div 2].count + cs[(n \div 2) + 1].count

\* IsPopular with the support filter left out
IsPopularAlways(row, twiceThreshold) == TRUE

\* df_count_rating['rating'] >= min_ratings_threshold
IsPopular(row, twiceThreshold) == 2 * row.count >= twiceThreshold

\* df_mean_rating[df_mean_rating['movie_id'].isin(popular_movies)]
RECURSIVE Retained(_, _)
Retained(stats, twiceThreshold) ==
    IF stats = << >> THEN << >>
    ELSE (IF IsPopular(Head(stats), twiceThreshold) THEN << Head(stats) >> ELSE << >>)
         \o Retained(Tail(stats), twiceThreshold)

\* sort_values(by='rating', ascending=False): mean descending, equal means in
\* the build's order
SortedByMean(stats) ==
    SortSeq([ i \in DOMAIN stats |->
                [ movie_id |-> stats[i].movie_id, count |-> stats[i].count,
                  sum |-> stats[i].sum,
                  num |-> 0 - stats[i].sum, den |-> stats[i].count,
                  tie |-> TieKey(sortTie, stats[i].movie_id) ] ])

\* .head(5)
HeadN(s) == SubSeq(s, 1, IF Len(s) < TopN THEN Len(s) ELSE TopN)

GetTopRatedMovies ==
    LET stats == GroupStats
        rows  == HeadN(SortedByMean(Retained(stats, TwiceMedian(stats))))
        top   == [ i \in DOMAIN rows |-> rows[i].movie_id ]
    IN  [ route |-> "popular", movie_ids |-> << >>, recommendations |-> << >>,
          final_recs |-> SubSeq(top, 1, Len(top)), response |-> Titles(top, 1),
          raised |-> "none" ]

----------------------------------------------------------------------------
(* The /recommend handler, lines 186-201 *)

Digits == << "0", "1", "2", "3", "4", "5", "6", "7", "8", "9" >>

\* str.isdigit(): non-empty and every character a digit
IsDigit(text) == Len(text) > 0 /\ \A i \in DOMAIN text : text[i] \in Range(Digits)

DigitVal(c) == (CHOOSE i \in DOMAIN Digits : Digits[i] = c) - 1

\* int(movie_id_str)
RECURSIVE ToInt(_)
ToInt(text) ==
    IF text = << >> THEN 0
    ELSE 10 * ToInt(SubSeq(text, 1, Len(text) - 1)) + DigitVal(text[Len(text)])

\* a form field: absent (request.form.get gives None) or a text
Absent == [ present |-> FALSE, text |-> << >> ]
Field(text) == [ present |-> TRUE, text |-> text ]

FieldValues ==
    { Absent, Field(<< >>), Field(<< "0" >>), Field(<< "1" >>), Field(<< "0", "1" >>),
      Field(<< "3" >>), Field(<< "5" >>), Field(<< "9", "9" >>), Field(<< "-", "1" >>) }

\* movie_ids after the loop over the three keys
RECURSIVE ParsedIds(_, _)
ParsedIds(fields, k) ==
    IF k > Len(FormKeys) THEN << >>
    ELSE LET f == fields[k]
         IN  (IF f.present /\ f.text # << >> /\ IsDigit(f.text)
                THEN << ToInt(f.text) >> ELSE << >>)
             \o ParsedIds(fields, k + 1)

\* valid_selection_count >= 3
UsesSeeds(ids) == Cardinality(Range(ids)) >= MinSelection

SetCall(c) ==
    /\ route' = c.route
    /\ movie_ids' = c.movie_ids
    /\ recommendations' = c.recommendations
    /\ final_recs' = c.final_recs
    /\ response' = c.response
    /\ raised' = c.raised

Recommend ==
    /\ pc = "idle"
    /\ \E fields \in [ DOMAIN FormKeys -> FieldValues ] :
          LET ids == ParsedIds(fields, 1)
          IN  /\ form' = fields
              /\ IF UsesSeeds(ids)
                   THEN \E seeds \in Orderings(Range(ids)) :
                           SetCall(GetRecommendations(seeds))
                   ELSE SetCall(GetTopRatedMovies)
    /\ pc' = "responded"
    /\ UNCHANGED << dataVars, builtVars >>

\* seed lists of a direct call of get_recommendations: distinct ids
SeedPool == { 0, 1, 2, 3, 4, OrphanId }

CallSeeds ==
    UNION { { s \in [1..n -> SeedPool] : \A i, j \in 1..n : i # j => s[i] # s[j] } :
            n \in 1..MaxSeeds }

CallGetRecommendations ==
    /\ pc = "idle"
    /\ \E seeds \in CallSeeds : SetCall(GetRecommendations(seeds))
    /\ form' = << >>
    /\ pc' = "responded"
    /\ UNCHANGED << dataVars, builtVars >>

\* the response is sent; the locals of the request are gone
Respond ==
    /\ pc = "responded"
    /\ SetCall(NoCall)
    /\ form' = << >>
    /\ pc' = "idle"
    /\ UNCHANGED << dataVars, builtVars >>

Next == Startup \/ Recommend \/ CallGetRecommendations \/ Respond

Spec == Init /\ [][Next]_vars

----------------------------------------------------------------------------
(* Properties *)

Answered(r) == pc = "responded" /\ route = r
Returned(r) == Answered(r) /\ raised = "none"

SeedSet == Range(movie_ids)

\* accumulated score of a movie id, 0 when it has no entry
ScoreOf(m) ==
    SumSeq([ p \in DOMAIN recommendations |->
               IF recommendations[p].id = m THEN recommendations[p].score ELSE 0 ])

\* movie ids whose title is t
IdsTitled(t) == { df_movies[j].movie_id : j \in { k \in DOMAIN df_movies :
                                                    df_movies[k].movie_title = t } }

\* C1: no seed of the request is among the movies get_recommendations
\* returns, neither as a selected id nor as a returned title.
C1_NoSeedReturned ==
    Returned("similar") =>
        /\ \A i \in DOMAIN final_recs : final_recs[i] \notin SeedSet
        /\ \A i \in DOMAIN response : IdsTitled(response[i]) \cap SeedSet = {}

\* a seed was accumulated as a neighbour, with a score above that of a movie
\* that was returned
C1_SeedOutscoresReturned ==
    /\ Returned("similar")
    /\ \E p \in DOMAIN recommendations, i \in DOMAIN final_recs :
          /\ recommendations[p].id \in SeedSet
          /\ recommendations[p].score > ScoreOf(final_recs[i])

\* C2: get_recommendations and get_top_rated_movies each return at most 5
\* entries.
C2_AtMostFive ==
    (Returned("similar") \/ Returned("popular")) =>
        Len(final_recs) <= TopN /\ Len(response) <= TopN

\* more than 5 movies that are no seeds were accumulated, and 5 are returned
C2_MoreCandidatesThanFive ==
    /\ Returned("similar")
    /\ Cardinality({ p \in DOMAIN recommendations :
                        recommendations[p].id \notin SeedSet }) > TopN
    /\ Len(response) = TopN

KnownSeeds == SelectSeq(movie_ids, HasLoc)

\* C3: seeds that match no row of the matrix are skipped: the call ends as the
\* call with the remaining seeds ends, and with no known seed it returns the
\* empty list without an exception.
C3_UnknownSeedsSkipped ==
    Answered("similar") =>
        LET rest == GetRecommendations(KnownSeeds)
        IN  /\ recommendations = rest.recommendations
            /\ final_recs = rest.final_recs
            /\ response = rest.response
            /\ raised = rest.raised
            /\ KnownSeeds = << >> => raised = "none" /\ response = << >>

\* a call with a known and an unknown seed returned recommendations
C3_MixedSeedsAnswered ==
    /\ Returned("similar")
    /\ KnownSeeds # << >>
    /\ Len(KnownSeeds) < Len(movie_ids)
    /\ response # << >>

\* C4: get_recommendations never fails for a non-empty seed list.
C4_NeverRaises ==
    (Answered("similar") /\ movie_ids # << >>) => raised = "none"

\* C5: the returned list is in descending order of accumulated score, equal
\* scores in ascending movie_id order.
C5_ScoreThenIdOrder ==
    Returned("similar") =>
        \A i, j \in DOMAIN final_recs : i < j =>
            \/ ScoreOf(final_recs[i]) > ScoreOf(final_recs[j])
            \/ /\ ScoreOf(final_recs[i]) = ScoreOf(final_recs[j])
               /\ final_recs[i] < final_recs[j]

\* the seed ids a form submits that are positive and name a movie of the list
ValidSeedIds(fields) ==
    { n \in { ToInt(fields[k].text) :
                k \in { q \in DOMAIN fields :
                          fields[q].present /\ IsDigit(fields[q].text) } } :
        n > 0 /\ \E j \in DOMAIN df_movies : df_movies[j].movie_id = n }

\* C6: /recommend uses get_recommendations exactly when the form holds at
\* least 3 distinct valid seed ids, and get_top_rated_movies otherwise.
C6_RouteByValidSeeds ==
    (pc = "responded" /\ form # << >>) =>
        /\ route = "similar" <=> Cardinality(ValidSeedIds(form)) >= MinSelection
        /\ route = "popular" <=> Cardinality(ValidSeedIds(form)) < MinSelection

\* the k-th smallest of the per-movie rating counts of the merged data
MergedMovieIds == { r.movie_id : r \in df_merged }
CountOf(m) == Cardinality({ r \in df_merged : r.movie_id = m })
KthCount(k) ==
    LET counts == { CountOf(m) : m \in MergedMovieIds }
        reach  == { c \in counts :
                      Cardinality({ m \in MergedMovieIds : CountOf(m) <= c }) >= k }
    IN  CHOOSE c \in reach : \A d \in reach : c <= d

\* twice the median of the per-movie rating counts
TwiceMedianOfCounts ==
    LET n == Cardinality(MergedMovieIds)
    IN  KthCount((n + 1) \div 2) + KthCount((n \div 2) + 1)

\* C7: every movie get_top_rated_movies returns has a rating count at least
\* the median of the per-movie rating counts of the merged data.
C7_CountAtLeastMedian ==
    Returned("popular") =>
        \A i \in DOMAIN final_recs :
            2 * CountOf(final_recs[i]) >= TwiceMedianOfCounts

MeanAbove(a, b) == RatingSum(a) * CountOf(b) > RatingSum(b) * CountOf(a)
MeanSame(a, b) == RatingSum(a) * CountOf(b) = RatingSum(b) * CountOf(a)

\* a movie below the median count has a higher mean rating than the first
\* movie returned
C7_UnpopularFavouriteLeftOut ==
    /\ Returned("popular")
    /\ final_recs # << >>
    /\ \E m \in MergedMovieIds :
          /\ 2 * CountOf(m) < TwiceMedianOfCounts
          /\ MeanAbove(m, final_recs[1])

\* mean rating descending, then movie_id ascending
RanksBefore(a, b) == MeanAbove(a, b) \/ (MeanSame(a, b) /\ a < b)

RetainedIds == { m \in MergedMovieIds : 2 * CountOf(m) >= TwiceMedianOfCounts }

\* C8: get_top_rated_movies returns the first 5 (or all) retained movies in
\* the order mean rating descending, equal means in ascending movie_id order.
C8_MeanThenIdOrder ==
    Returned("popular") =>
        /\ Len(final_recs) = (IF Cardinality(RetainedIds) < TopN
                                THEN Cardinality(RetainedIds) ELSE TopN)
        /\ \A i \in DOMAIN final_recs :
              /\ final_recs[i] \in RetainedIds
              /\ Cardinality({ m \in RetainedIds : RanksBefore(m, final_recs[i]) }) = i - 1

\* no rating is of a movie of the movie list
NoOverlap ==
    \A r \in df_ratings : \A j \in DOMAIN df_movies : df_movies[j].movie_id # r.movie_id

\* C9: when no rating is of a listed movie the build fails with an exception
\* and the process never serves a request.
C9_EmptyJoinNeverServes ==
    NoOverlap =>
        /\ pc \in { "import", "crashed" }
        /\ route = "none"
        /\ pc = "crashed" => raised = "ValueError"

\* the build of a dataset without overlap has run
C9_EmptyJoinBuilt == NoOverlap /\ pc = "crashed" /\ df_merged = {}

\* the seed's neighbour list holds the row of movie m
Lists(seed, m) ==
    \E i \in 1..K : df_piv.index[KNeighbors(GetLoc(seed))[i].indice] = m

\* similarity of a seed and movie m, 1 - cosine distance
SimilarityTo(seed, m) == SCALE - df_piv.distance[GetLoc(seed)][GetLoc(m)]

\* C10: the accumulated score of a movie that is no seed is the sum of its
\* similarities to the seeds whose neighbour lists hold it, in one entry.
C10_ScoreIsSumOverListingSeeds ==
    Returned("similar") =>
        \A x \in Range(df_piv.index) \ SeedSet :
            /\ Cardinality({ p \in DOMAIN recommendations :
                                recommendations[p].id = x }) <= 1
            /\ ScoreOf(x) =
                 SumSeq([ s \in DOMAIN movie_ids |->
                            IF HasLoc(movie_ids[s]) /\ Lists(movie_ids[s], x)
                              THEN SimilarityTo(movie_ids[s], x) ELSE 0 ])

====
